---- MODULE Spec2Model ----
(***************************************************************************)
(* Submission synchronisation and reconciliation pipeline of               *)
(* coverage-check-be: the POST /api/submit-form handler and the two cron   *)
(* jobs checkCoverageBot (registration) and checkCoverageStatus (polling). *)
(* Every await of a handler is a suspension point, so each handler is a    *)
(* process with a program counter; the request in flight and the two cron  *)
(* jobs interleave freely. Requests are taken one after another: two       *)
(* requests write disjoint rows, and the cron jobs fire again and again.   *)
(* What two overlapping requests do share is a pooled connection: SpecPool *)
(* adds a request that takes the connection another one has released. The  *)
(* migration script, which prepares the database, is SpecMigrate.          *)
(***************************************************************************)
EXTENDS Integers, Sequences, FiniteSets, TLC

(* ---------------- bounds of the model ---------------- *)
MaxSubs == 1        \* form submissions received
MaxPhotos == 1      \* files attached to one valid submission
MaxQualify == 11    \* unregistered FS submissions in the store under SpecBatch
MaxBacklog == 3     \* FS submissions in the store under SpecBacklog
MaxLocality == 9    \* characters of a village (locality) string
MaxCoordinates == 2 \* characters of a coordinates string
MaxRuns == 2        \* runs of the migration script
MaxStatements == 2  \* statements of one migration file

(* ---------------- program constants ---------------- *)
BatchLimit == 10    \* LIMIT 10 of the checkCoverageBot selection
FileLimit == 5      \* "Maximum 5 files allowed"
NULL == -1          \* SQL NULL of a marker column (DEFAULT NULL)

SubIds == 1..MaxSubs
OperatorSets == {{}, {"XL"}, {"FS", "XL"}}
FileCounts == {0, MaxPhotos, FileLimit + 1}

VARIABLES
  submissions,     \* table submissions: id -> row (committed rows only)
  building_photos, \* table building_photos: set of <<submission_id, n>>
  pc,              \* position of each submit-form request
  request,         \* the form each request carried, as the handler read it
  submission,      \* the handler's local `submission` of each request
  pending,         \* rows inserted in the request's open transaction
  resp,            \* HTTP status answered to the caller (0: none yet)
  called,          \* an append or the POST of the request has completed
  response,        \* id in the coverage service's answer to the request's POST
  clock,           \* new Date() as a logical clock: the time a read yields
                   \* now, later than every time already read
  attempts,        \* calls the request has issued: appends to each
                   \* spreadsheet and POSTs to the coverage service
  fsSheet,         \* column A of the FS spreadsheet, one entry per appended row
  allSheet,        \* column A of the all-operators spreadsheet
  fsCells,         \* cells K..M of the FS spreadsheet: row number -> values
  botPc, botRows, botResp, botCalls, botSeen,
                   \* checkCoverageBot run: position, rows left, response,
                   \* POSTs of this run, marker of each row as it was selected
  stPc, stRows, sheetIds, stContent,
                   \* checkCoverageStatus run: position, rows left, prefetched
                   \* column, polled content
  holder, txn,      \* the pooled connection a request has released: whether
                   \* another request has a transaction open on it, and the
                   \* statements executed in that transaction
  migrationsTable, \* table migrations: the recorded names, in id order
  schema,          \* migration -> how many of its leading statements are in
                   \* effect in the database
  migPc, migIndex, executed, schemaAtBegin, runs,
                   \* the migration script: position, index of the migration
                   \* in the list, statements executed by this runMigration,
                   \* schema entry when its transaction began, runs started
  form, payload    \* the text fields and photos of one submission, and the
                   \* registration payload built from them by the handler
                   \* and by a checkCoverageBot run

storeVars == <<submissions, building_photos>>
reqVars == <<pc, request, submission, pending, resp, called, response, clock,
             attempts>>
sheetVars == <<fsSheet, allSheet, fsCells>>
botVars == <<botPc, botRows, botResp, botCalls, botSeen>>
stVars == <<stPc, stRows, sheetIds, stContent>>
payloadVars == <<form, payload>>
poolVars == <<holder, txn>>
migVars == <<migrationsTable, schema, migPc, migIndex, executed, schemaAtBegin, runs>>
vars == <<storeVars, reqVars, sheetVars, botVars, stVars, payloadVars, poolVars,
          migVars>>

NoSubmission == [timestamp |-> NULL, operators |-> {}, nPhotos |-> 0]
NoPending == [row |-> FALSE, photos |-> 0]
NoRequest == [missing |-> FALSE, operators |-> {}, nFiles |-> 0, oversized |-> FALSE,
              read |-> FALSE]
NoForm == [id |-> 0]
NoPayload == [operator |-> "none"]
NoAttempts == [fs |-> 0, all |-> 0, bot |-> 0]
NoContent == [is_covered |-> NULL, homepassed_id |-> FALSE, operator_remarks |-> FALSE]

(* submission.operators.includes("FS") / JSON_CONTAINS(operators, '"FS"') *)
hasFSOperator(ops) == "FS" \in ops

(* a freshly inserted row: the marker columns take their defaults *)
NewRow(s) ==
  [timestamp |-> s.timestamp, operators |-> s.operators,
   writeToAllOperatorSpreadsheetAt |-> NULL,
   writeToFSOperatorSpreadsheetAt |-> NULL,
   checkCoverageBotId |-> NULL, checkCoverageBotFinish |-> 0]

(* UPDATE submissions SET <col> = v WHERE id = id (no such row: no effect) *)
UpdateColumn(tbl, id, col, v) ==
  IF id \in DOMAIN tbl THEN [tbl EXCEPT ![id][col] = v] ELSE tbl

(* SELECT filename FROM building_photos WHERE submission_id = id *)
PhotosOf(photos, id) == {p \in photos : p[1] = id}

(* connection.execute(UPDATE ...) after connection.release(): the statement
   runs on the pooled connection whoever holds it now. With no transaction
   open on it the UPDATE is committed on its own (stored is the table it
   leaves); inside the transaction another request has begun on it, the
   UPDATE becomes one of that transaction's statements. *)
ExecuteReleased(does, write, stored) ==
  IF does /\ holder = "open"
    THEN /\ txn' = Append(txn, write)
         /\ submissions' = submissions
    ELSE /\ txn' = txn
         /\ submissions' = stored

(* a statement of the open transaction holds the lock of row id *)
RowLocked(id) == \E i \in 1..Len(txn) : txn[i][1] = id

(* const migrations = [...]: the migrations in the order they are applied *)
migrations ==
  <<"001_initial_schema", "002_add_branchid_to_salesman",
    "003_add_branchid_to_submissions">>

(* sql.split(';') ... filter: the number of statements of a migration file *)
Statements(name) == MaxStatements

(* the database and the script after every migration was applied: the state
   the server runs in *)
Migrated ==
  /\ migrationsTable = migrations
  /\ schema = [i \in 1..Len(migrations) |-> Statements(migrations[i])]
  /\ migPc = "stopped" /\ migIndex = 1 /\ executed = 0 /\ schemaAtBegin = 0
  /\ runs = 0

(* the processes before anything was received *)
Idle ==
  /\ pc = [r \in SubIds |-> "start"]
  /\ request = [r \in SubIds |-> NoRequest]
  /\ submission = [r \in SubIds |-> NoSubmission]
  /\ pending = [r \in SubIds |-> NoPending]
  /\ resp = [r \in SubIds |-> 0]
  /\ called = [r \in SubIds |-> FALSE]
  /\ response = [r \in SubIds |-> NULL]
  /\ clock = 1
  /\ attempts = [r \in SubIds |-> NoAttempts]
  /\ botPc = "idle" /\ botRows = <<>> /\ botResp = NULL
  /\ botCalls = 0 /\ botSeen = <<>>
  /\ stPc = "idle" /\ stRows = <<>> /\ sheetIds = <<>>
  /\ stContent = NoContent
  /\ holder = "none" /\ txn = <<>>

Init ==
  /\ Idle
  /\ submissions = <<>>
  /\ building_photos = {}
  /\ fsSheet = <<>>
  /\ allSheet = <<>>
  /\ fsCells = <<>>
  /\ form = NoForm /\ payload = NoPayload
  /\ Migrated

(***************************************************************************)
(* POST /api/submit-form                                                   *)
(***************************************************************************)

(* variant: the number of attached files is not checked *)
ValidFormAnyFiles(missing, ops, nFiles, oversized) ==
  /\ ~(missing \/ ops = {})
  /\ ~(nFiles > 0 /\ oversized)

(* the field, operator and file checks of the handler *)
ValidForm(missing, ops, nFiles, oversized) ==
  /\ ~(missing \/ ops = {})
  /\ ~(nFiles > FileLimit)
  /\ ~(nFiles > 0 /\ oversized)

(* the forms a client can send: some required field empty or not, the
   operators, the number of attached files, and whether one of them is larger
   than 10MB *)
Requests ==
  {q \in [missing : BOOLEAN, operators : OperatorSets, nFiles : FileCounts,
          oversized : BOOLEAN, read : {TRUE}] : q.oversized => q.nFiles > 0}

(* getConnection, beginTransaction, formData, validation and file saving.
   Outcomes: the connection or a file write throws (to the catch block), the
   form is invalid (400), or the handler goes on to insert. *)
ReceiveForm(r) ==
  /\ pc[r] = "start"
  /\ \A q \in SubIds : q < r => pc[q] = "done"
  /\ clock' = clock + 1
  /\ \/ /\ pc' = [pc EXCEPT ![r] = "catch"]
        /\ UNCHANGED <<request, submission, resp>>
     \/ \E q \in Requests :
          /\ request' = [request EXCEPT ![r] = q]
          /\ IF ValidForm(q.missing, q.operators, q.nFiles, q.oversized)
               THEN /\ submission' = [submission EXCEPT ![r] =
                         [timestamp |-> clock, operators |-> q.operators,
                          nPhotos |-> q.nFiles]]
                    /\ pc' = [pc EXCEPT ![r] = "insert"]
                    /\ UNCHANGED resp
               ELSE /\ pc' = [pc EXCEPT ![r] = "done"]
                    /\ resp' = [resp EXCEPT ![r] = 400]
                    /\ UNCHANGED submission
  /\ UNCHANGED <<storeVars, pending, called, attempts, response, sheetVars, botVars,
                 stVars, payloadVars, poolVars, migVars>>

(* INSERT INTO submissions, then one INSERT INTO building_photos per saved
   file, all in the connection's open transaction. Any of them may throw:
   k photo rows were inserted when it did. *)
InsertRows(r) ==
  /\ pc[r] = "insert"
  /\ \E row \in BOOLEAN, k \in 0..submission[r].nPhotos :
       /\ row \/ k = 0
       /\ pending' = [pending EXCEPT ![r] = [row |-> row, photos |-> k]]
       /\ pc' = [pc EXCEPT ![r] =
                   IF row /\ k = submission[r].nPhotos THEN "commit" ELSE "catch"]
  /\ UNCHANGED <<storeVars, submission, resp, called, attempts, response, clock, sheetVars,
                 botVars, stVars, payloadVars, poolVars, migVars, request>>

(* the rows a COMMIT of request r's transaction makes visible *)
CommittedRows(tbl, r) ==
  IF pending[r].row THEN (r :> NewRow(submission[r])) @@ tbl ELSE tbl

CommittedPhotos(photos, r) ==
  photos \cup {<<r, n>> : n \in 1..pending[r].photos}

(* connection.commit(); connection.release() *)
Commit(r) ==
  /\ pc[r] = "commit"
  /\ \/ /\ pc' = [pc EXCEPT ![r] = "catch"]
        /\ UNCHANGED <<storeVars, pending>>
     \/ /\ submissions' = CommittedRows(submissions, r)
        /\ building_photos' = CommittedPhotos(building_photos, r)
        /\ pending' = [pending EXCEPT ![r] = NoPending]
        /\ pc' = [pc EXCEPT ![r] = "sheets"]
  /\ UNCHANGED <<submission, resp, called, attempts, response, clock, sheetVars,
                 botVars, stVars, payloadVars, poolVars, migVars, request>>

(* the handler returns: its locals are gone *)
Return(r, status) ==
  /\ resp' = [resp EXCEPT ![r] = status]
  /\ pc' = [pc EXCEPT ![r] = "done"]
  /\ submission' = [submission EXCEPT ![r] = NoSubmission]

(* variant: the catch block answers 500 without a rollback, and the release
   of the connection lets the pending inserts through *)
HandleErrorNoRollback(r) ==
  /\ pc[r] = "catch"
  /\ submissions' = CommittedRows(submissions, r)
  /\ building_photos' = CommittedPhotos(building_photos, r)
  /\ pending' = [pending EXCEPT ![r] = NoPending]
  /\ Return(r, 500)
  /\ UNCHANGED <<called, attempts, response, clock, sheetVars, botVars, stVars, payloadVars, poolVars, migVars, request>>

(* the outer catch block: rollback (a throw of the rollback is swallowed; the
   server drops the transaction of a lost connection), release, answer 500 *)
HandleError(r) ==
  /\ pc[r] = "catch"
  /\ pending' = [pending EXCEPT ![r] = NoPending]
  /\ Return(r, 500)
  /\ UNCHANGED <<storeVars, called, attempts, response, clock, sheetVars, botVars, stVars, payloadVars, poolVars, migVars, request>>

(* the handler resumes after an await and runs on to its next await; with
   none left it reaches return c.json({success: true, ...}) *)
Resume(r, next) ==
  IF next = "respond"
    THEN Return(r, 200)
    ELSE /\ pc' = [pc EXCEPT ![r] = next]
         /\ UNCHANGED <<resp, submission>>

(* variant: the registration block is not guarded by hasFSOperator *)
AfterSheetsAlwaysBot(r) == "bot"

(* where the handler goes after the spreadsheet block: if (hasFSOperator) *)
AfterSheets(r) == IF hasFSOperator(submission[r].operators) THEN "bot" ELSE "respond"

(* new GoogleAuth / getClient and the row values: a throw skips both appends *)
SheetsAuth(r) ==
  /\ pc[r] = "sheets"
  /\ \E threw \in BOOLEAN :
       Resume(r, IF threw THEN AfterSheets(r)
                 ELSE IF hasFSOperator(submission[r].operators) THEN "fsAppend"
                 ELSE "allAppend")
  /\ UNCHANGED <<storeVars, pending, called, attempts, response, clock, sheetVars, botVars,
                 stVars, payloadVars, poolVars, migVars, request>>

(* outcomes of a spreadsheet append and of a coverage-service call: a 200/201
   answer, another status handed back, or a throw (transport error, or the
   client's rejection of a non-2xx answer) *)
CallOutcomes == {"ok", "status", "throw"}

(* variant: the FS marker is written whatever the append answered *)
AppendFSMarksAnyway(r) ==
  /\ pc[r] = "fsAppend"
  /\ \E out \in CallOutcomes :
       /\ fsSheet' = IF out = "ok" THEN Append(fsSheet, r) ELSE fsSheet
       /\ ExecuteReleased(out # "throw",
                       <<r, "writeToFSOperatorSpreadsheetAt", submission[r].timestamp>>,
                       IF out # "throw"
                         THEN UpdateColumn(submissions, r,
                                           "writeToFSOperatorSpreadsheetAt", submission[r].timestamp)
                         ELSE submissions)
       /\ Resume(r, IF out = "throw" THEN AfterSheets(r) ELSE "allAppend")
  /\ called' = [called EXCEPT ![r] = TRUE]
  /\ attempts' = [attempts EXCEPT ![r].fs = @ + 1]
  /\ UNCHANGED <<building_photos, pending, response, clock, allSheet, fsCells,
                 botVars, stVars, payloadVars, holder, migVars, request>>

(* variant: the FS append is sent a second time after it was answered, so
   the row reaches the FS spreadsheet twice *)
AppendFSDuplicates(r) ==
  /\ pc[r] = "fsAppend"
  /\ \E out \in CallOutcomes, updThrew \in BOOLEAN :
       /\ (out # "ok") => ~updThrew
       /\ fsSheet' = IF out = "ok" THEN Append(Append(fsSheet, r), r) ELSE fsSheet
       /\ ExecuteReleased(out = "ok" /\ ~updThrew,
                       <<r, "writeToFSOperatorSpreadsheetAt", submission[r].timestamp>>,
                       IF out = "ok" /\ ~updThrew
                         THEN UpdateColumn(submissions, r,
                                           "writeToFSOperatorSpreadsheetAt", submission[r].timestamp)
                         ELSE submissions)
       /\ Resume(r, IF out = "throw" \/ updThrew THEN AfterSheets(r) ELSE "allAppend")
  /\ called' = [called EXCEPT ![r] = TRUE]
  /\ attempts' = [attempts EXCEPT ![r].fs = @ + 1]
  /\ UNCHANGED <<building_photos, pending, response, clock, allSheet, fsCells,
                 botVars, stVars, payloadVars, holder, migVars, request>>

(* if (hasFSOperator): append to the FS spreadsheet, then on 200/201 UPDATE
   writeToFSOperatorSpreadsheetAt. A throw of either leaves the try block. *)
AppendFS(r) ==
  /\ pc[r] = "fsAppend"
  /\ \E out \in CallOutcomes, updThrew \in BOOLEAN :
       /\ (out # "ok") => ~updThrew
       /\ fsSheet' = IF out = "ok" THEN Append(fsSheet, r) ELSE fsSheet
       /\ ExecuteReleased(out = "ok" /\ ~updThrew,
                       <<r, "writeToFSOperatorSpreadsheetAt", submission[r].timestamp>>,
                       IF out = "ok" /\ ~updThrew
                         THEN UpdateColumn(submissions, r,
                                           "writeToFSOperatorSpreadsheetAt", submission[r].timestamp)
                         ELSE submissions)
       /\ Resume(r, IF out = "throw" \/ updThrew THEN AfterSheets(r) ELSE "allAppend")
  /\ called' = [called EXCEPT ![r] = TRUE]
  /\ attempts' = [attempts EXCEPT ![r].fs = @ + 1]
  /\ UNCHANGED <<building_photos, pending, response, clock, allSheet, fsCells,
                 botVars, stVars, payloadVars, holder, migVars, request>>

(* variant: a failed all-operators append unwinds the submission (DELETE of
   the row and of its photo rows) *)
AppendAllUnwinds(r) ==
  /\ pc[r] = "allAppend"
  /\ \E out \in CallOutcomes :
       /\ allSheet' = IF out = "ok" THEN Append(allSheet, r) ELSE allSheet
       /\ ExecuteReleased(out = "ok",
                       <<r, "writeToAllOperatorSpreadsheetAt", submission[r].timestamp>>,
                       IF out = "ok"
                         THEN UpdateColumn(submissions, r,
                                           "writeToAllOperatorSpreadsheetAt", submission[r].timestamp)
                         ELSE [id \in DOMAIN submissions \ {r} |-> submissions[id]])
       /\ building_photos' =
            IF out = "ok" THEN building_photos
            ELSE building_photos \ PhotosOf(building_photos, r)
  /\ Resume(r, AfterSheets(r))
  /\ called' = [called EXCEPT ![r] = TRUE]
  /\ attempts' = [attempts EXCEPT ![r].all = @ + 1]
  /\ UNCHANGED <<pending, response, clock, fsSheet, fsCells, botVars, stVars, payloadVars, holder, migVars, request>>

(* variant: a failed all-operators append is made once more *)
AppendAllRetries(r) ==
  /\ pc[r] = "allAppend"
  /\ \E first \in CallOutcomes, out \in CallOutcomes, updThrew \in BOOLEAN :
       /\ (out # "ok") => ~updThrew
       /\ (first = "ok") => out = "ok"
       /\ allSheet' = IF out = "ok" THEN Append(allSheet, r) ELSE allSheet
       /\ ExecuteReleased(out = "ok" /\ ~updThrew,
                       <<r, "writeToAllOperatorSpreadsheetAt", submission[r].timestamp>>,
                       IF out = "ok" /\ ~updThrew
                         THEN UpdateColumn(submissions, r,
                                           "writeToAllOperatorSpreadsheetAt", submission[r].timestamp)
                         ELSE submissions)
       /\ attempts' = [attempts EXCEPT ![r].all = IF first = "ok" THEN @ + 1 ELSE @ + 2]
  /\ Resume(r, AfterSheets(r))
  /\ called' = [called EXCEPT ![r] = TRUE]
  /\ UNCHANGED <<building_photos, pending, response, clock, fsSheet, fsCells,
                 botVars, stVars, payloadVars, holder, migVars, request>>

(* append to the all-operators spreadsheet, then on 200/201 UPDATE
   writeToAllOperatorSpreadsheetAt *)
AppendAll(r) ==
  /\ pc[r] = "allAppend"
  /\ \E out \in CallOutcomes, updThrew \in BOOLEAN :
       /\ (out # "ok") => ~updThrew
       /\ allSheet' = IF out = "ok" THEN Append(allSheet, r) ELSE allSheet
       /\ ExecuteReleased(out = "ok" /\ ~updThrew,
                       <<r, "writeToAllOperatorSpreadsheetAt", submission[r].timestamp>>,
                       IF out = "ok" /\ ~updThrew
                         THEN UpdateColumn(submissions, r,
                                           "writeToAllOperatorSpreadsheetAt", submission[r].timestamp)
                         ELSE submissions)
  /\ Resume(r, AfterSheets(r))
  /\ called' = [called EXCEPT ![r] = TRUE]
  /\ attempts' = [attempts EXCEPT ![r].all = @ + 1]
  /\ UNCHANGED <<building_photos, pending, response, clock, fsSheet, fsCells,
                 botVars, stVars, payloadVars, holder, migVars, request>>

(* outcomes of POST /api/check-coverage: "ok" is 200/201 with data[0].id,
   "empty" is 200/201 with an empty data array (data[0]?.id is undefined and
   the UPDATE rejects the undefined bind parameter) *)
PostOutcomes == CallOutcomes \cup {"empty"}

(* data[0].id of the coverage service's answer: an id of its own choosing,
   one per registration. The ids are opaque to the program, so the model
   names an id after the registration it answers: the handler's POST for
   submission id, or a checkCoverageBot run's POST for it. An id a run was
   given and could not store is held nowhere afterwards, and the id of a
   later run's POST for the same submission takes its name. *)
RegistrationId(id, by) == IF by = "handler" THEN 2 * id - 1 ELSE 2 * id

(* variant: the POST is made outside the inner try, so its throw reaches the
   outer catch block *)
PostCoverageUncaught(r) ==
  /\ pc[r] = "bot"
  /\ \E out \in PostOutcomes :
       /\ response' = [response EXCEPT ![r] = IF out = "ok" THEN RegistrationId(r, "handler") ELSE NULL]
       /\ IF out = "throw"
            THEN /\ pc' = [pc EXCEPT ![r] = "catch"]
                 /\ UNCHANGED <<resp, submission>>
            ELSE Resume(r, IF out = "ok" THEN "botUpdate" ELSE "respond")
  /\ called' = [called EXCEPT ![r] = TRUE]
  /\ attempts' = [attempts EXCEPT ![r].bot = @ + 1]
  /\ UNCHANGED <<storeVars, pending, clock, sheetVars, botVars, stVars, payloadVars, poolVars, migVars, request>>

(* if (hasFSOperator): build the payload and POST it to the coverage service *)
PostCoverage(r) ==
  /\ pc[r] = "bot"
  /\ \E out \in PostOutcomes :
       /\ response' = [response EXCEPT ![r] = IF out = "ok" THEN RegistrationId(r, "handler") ELSE NULL]
       /\ Resume(r, IF out = "ok" THEN "botUpdate" ELSE "respond")
  /\ called' = [called EXCEPT ![r] = TRUE]
  /\ attempts' = [attempts EXCEPT ![r].bot = @ + 1]
  /\ UNCHANGED <<storeVars, pending, clock, sheetVars, botVars, stVars, payloadVars, poolVars, migVars, request>>

(* variant: what is stored is the status of the answer, response.status *)
SetBotIdStoresStatus(tbl, id, v) == UpdateColumn(tbl, id, "checkCoverageBotId", 200)

(* variant: storing an id also restarts the polling,
   SET checkCoverageBotId = ?, checkCoverageBotFinish = 0 *)
SetBotIdRestarts(tbl, id, v) ==
  UpdateColumn(UpdateColumn(tbl, id, "checkCoverageBotId", v),
               id, "checkCoverageBotFinish", 0)

(* UPDATE submissions SET checkCoverageBotId = ? WHERE id = ? *)
SetBotId(tbl, id, v) == UpdateColumn(tbl, id, "checkCoverageBotId", v)

UpdateBotId(r) ==
  /\ pc[r] = "botUpdate"
  /\ \E threw \in BOOLEAN :
       ExecuteReleased(~threw,
                       <<r, "checkCoverageBotId", response[r]>>,
                       IF threw THEN submissions ELSE SetBotId(submissions, r, response[r]))
  /\ response' = [response EXCEPT ![r] = NULL]
  /\ Resume(r, "respond")
  /\ UNCHANGED <<building_photos, pending, called, attempts, clock, sheetVars, botVars, stVars, payloadVars, holder, migVars, request>>

SubmitForm(r) ==
  \/ ReceiveForm(r) \/ InsertRows(r) \/ Commit(r) \/ HandleError(r)
  \/ SheetsAuth(r) \/ AppendFS(r) \/ AppendAll(r)
  \/ PostCoverage(r) \/ UpdateBotId(r)

(***************************************************************************)
(* cron/checkCoverageBot.ts: register the unregistered FS submissions      *)
(***************************************************************************)

Min(a, b) == IF a < b THEN a ELSE b

(* the ids of S as a sequence, ascending *)
RECURSIVE AscendingSeq(_)
AscendingSeq(S) ==
  IF S = {} THEN <<>>
  ELSE LET m == CHOOSE x \in S : \A y \in S : x <= y
       IN <<m>> \o AscendingSeq(S \ {m})

(* checkCoverageBotId IS NULL OR checkCoverageBotId = '' (an int column
   compares equal to '' when it holds 0) *)
BotIdBlank(v) == v = NULL \/ v = 0

(* variant: the WHERE clause has only JSON_CONTAINS(operators, '"FS"') *)
UnregisteredAnyFS(tbl) == {id \in DOMAIN tbl : hasFSOperator(tbl[id].operators)}

(* WHERE JSON_CONTAINS(operators, '"FS"') AND (checkCoverageBotId IS NULL OR ...) *)
Unregistered(tbl) ==
  {id \in DOMAIN tbl : hasFSOperator(tbl[id].operators)
                       /\ BotIdBlank(tbl[id].checkCoverageBotId)}

(* ... LIMIT n: the result sets the query may return, no ORDER BY given *)
Limit(S, n) == {T \in SUBSET S : Cardinality(T) = Min(n, Cardinality(S))}

(* variant: the SELECT has no LIMIT *)
SelectionUnlimited(tbl) == {Unregistered(tbl)}

(* the rows the SELECT of a run may return *)
Selection(tbl) == Limit(Unregistered(tbl), BatchLimit)

(* the SELECT of a run; it may throw (outer catch), and an empty result ends
   the run at once *)
BotSelect ==
  /\ botPc = "idle"
  /\ \/ UNCHANGED <<botPc, botRows, botSeen>>
     \/ \E T \in Selection(submissions) :
          /\ botRows' = AscendingSeq(T)
          /\ botSeen' = IF T = {} THEN <<>>
                         ELSE [id \in T |-> submissions[id].checkCoverageBotId]
          /\ botPc' = IF T = {} THEN "idle" ELSE "post"
  /\ UNCHANGED <<storeVars, reqVars, sheetVars, botResp, botCalls, stVars, payloadVars, poolVars, migVars>>

(* variant: the iteration ends with a return, not with the next row *)
BotAdvanceReturns(calls) ==
  /\ botRows' = <<>>
  /\ botPc' = "idle"
  /\ botCalls' = 0
  /\ botSeen' = <<>>

(* the loop goes on to the next selected row, or the run ends *)
BotAdvance(calls) ==
  /\ botRows' = Tail(botRows)
  /\ botPc' = IF Len(botRows) > 1 THEN "post" ELSE "idle"
  /\ botCalls' = IF Len(botRows) > 1 THEN calls ELSE 0
  /\ botSeen' = IF Len(botRows) > 1
                  THEN [id \in DOMAIN botSeen \ {Head(botRows)} |-> botSeen[id]]
                  ELSE <<>>

(* variant: an answer without data[0].id is stored as NULL
   (response.data.data[0]?.id ?? null) *)
BotPostBindsNull ==
  /\ botPc = "post"
  /\ \E out \in PostOutcomes \cup {"photos"} :
       /\ IF out \in {"ok", "empty"}
            THEN /\ botResp' = IF out = "ok"
                                  THEN RegistrationId(Head(botRows), "cron")
                                  ELSE NULL
                 /\ botPc' = "update"
                 /\ botCalls' = botCalls + 1
                 /\ UNCHANGED <<botRows, botSeen>>
            ELSE /\ BotAdvance(IF out = "photos" THEN botCalls ELSE botCalls + 1)
                 /\ UNCHANGED botResp
  /\ UNCHANGED <<storeVars, reqVars, sheetVars, stVars, payloadVars, poolVars, migVars>>

(* variant: the POSTs of all selected rows are issued together,
   Promise.all(rows.map(...)) *)
BotPostAllAtOnce ==
  /\ botPc = "post"
  /\ botResp' = RegistrationId(Head(botRows), "cron")
  /\ botPc' = "update"
  /\ botCalls' = botCalls + Len(botRows)
  /\ UNCHANGED <<botRows, botSeen>>
  /\ UNCHANGED <<storeVars, reqVars, sheetVars, stVars, payloadVars, poolVars, migVars>>

(* one iteration up to the POST: the photo query, the payload, axios.post.
   "photos" is a throw of the photo query: no POST is made. *)
BotPost ==
  /\ botPc = "post"
  /\ \E out \in PostOutcomes \cup {"photos"} :
       /\ IF out = "ok"
            THEN /\ botResp' = RegistrationId(Head(botRows), "cron")
                 /\ botPc' = "update"
                 /\ botCalls' = botCalls + 1
                 /\ UNCHANGED <<botRows, botSeen>>
            ELSE /\ BotAdvance(IF out = "photos" THEN botCalls ELSE botCalls + 1)
                 /\ UNCHANGED botResp
  /\ UNCHANGED <<storeVars, reqVars, sheetVars, stVars, payloadVars, poolVars, migVars>>

(* UPDATE submissions SET checkCoverageBotId = ? WHERE id = ? for the row *)
BotUpdate ==
  /\ botPc = "update"
  /\ \E threw \in BOOLEAN :
       /\ ~threw => ~RowLocked(Head(botRows))
       /\ submissions' = IF threw THEN submissions
                          ELSE SetBotId(submissions, Head(botRows), botResp)
  /\ botResp' = NULL
  /\ BotAdvance(botCalls)
  /\ UNCHANGED <<building_photos, reqVars, sheetVars, stVars, payloadVars, poolVars, migVars>>

CheckCoverageBot == BotSelect \/ BotPost \/ BotUpdate

(***************************************************************************)
(* cron/checkCoverageStatus.ts: poll the registered, unfinished ones       *)
(***************************************************************************)

(* variant: the WHERE clause has only checkCoverageBotFinish = 0 *)
UnfinishedAny(tbl) == {id \in DOMAIN tbl : tbl[id].checkCoverageBotFinish = 0}

(* WHERE checkCoverageBotId IS NOT NULL AND checkCoverageBotFinish = 0 *)
Unfinished(tbl) ==
  {id \in DOMAIN tbl : tbl[id].checkCoverageBotId # NULL
                       /\ tbl[id].checkCoverageBotFinish = 0}

(* the selected rows, each {id, checkCoverageBotId} *)
RECURSIVE RowsOf(_, _)
RowsOf(tbl, ids) ==
  IF ids = <<>> THEN <<>>
  ELSE <<[id |-> Head(ids), checkCoverageBotId |-> tbl[Head(ids)].checkCoverageBotId]>>
       \o RowsOf(tbl, Tail(ids))

(* the SELECT of a run; it may throw, and an empty result ends the run *)
StatusSelect ==
  /\ stPc = "idle"
  /\ \/ UNCHANGED <<stPc, stRows>>
     \/ /\ stRows' = RowsOf(submissions, AscendingSeq(Unfinished(submissions)))
        /\ stPc' = IF Unfinished(submissions) = {} THEN "idle" ELSE "prefetch"
  /\ UNCHANGED <<storeVars, reqVars, sheetVars, botVars, payloadVars, poolVars, migVars, sheetIds,
                 stContent>>

(* variant: the catch of the prefetch logs and the run goes on with the
   empty sheetIds *)
StatusPrefetchContinues ==
  /\ stPc = "prefetch"
  /\ \/ sheetIds' = fsSheet
     \/ sheetIds' = <<>>
  /\ stPc' = "poll"
  /\ UNCHANGED <<storeVars, reqVars, sheetVars, botVars, payloadVars, poolVars, migVars, stRows, stContent>>

(* sheets.spreadsheets.values.get of Sheet1!A:A; on a throw the run returns *)
StatusPrefetch ==
  /\ stPc = "prefetch"
  /\ \/ /\ sheetIds' = fsSheet
        /\ stPc' = "poll"
        /\ UNCHANGED stRows
     \/ /\ stPc' = "idle"
        /\ stRows' = <<>>
        /\ UNCHANGED sheetIds
  /\ UNCHANGED <<storeVars, reqVars, sheetVars, botVars, payloadVars, poolVars, migVars, stContent>>

(* the loop goes on to the next selected row, or the run ends *)
StatusAdvance ==
  /\ stRows' = Tail(stRows)
  /\ stPc' = IF Len(stRows) > 1 THEN "poll" ELSE "idle"
  /\ stContent' = NoContent
  /\ sheetIds' = IF Len(stRows) > 1 THEN sheetIds ELSE <<>>

(* variant: isCovered == 1 || isCovered == 0 *)
TerminalAnyAnswer(content) == content.is_covered = 1 \/ content.is_covered = 0

(* (isCovered == 1 && homepassedId) || isCovered == 0 *)
Terminal(content) ==
  (content.is_covered = 1 /\ content.homepassed_id) \/ content.is_covered = 0

(* response.data.data of a 200 answer of GET /api/check-coverage/{id} *)
Contents ==
  {[is_covered |-> a[1], homepassed_id |-> a[2], operator_remarks |-> a[3]] :
     a \in {<<NULL, FALSE, FALSE>>, <<0, FALSE, FALSE>>, <<0, FALSE, TRUE>>,
            <<1, FALSE, FALSE>>, <<1, TRUE, FALSE>>}}

(* axios.get of the status; a throw or a status other than 200 skips the row,
   and so does is_covered = null *)
StatusPoll ==
  /\ stPc = "poll"
  /\ \/ StatusAdvance
     \/ \E content \in Contents :
          IF content.is_covered = NULL
            THEN StatusAdvance
            ELSE /\ stContent' = content
                 /\ stPc' = IF Terminal(content) THEN "finish" ELSE "write"
                 /\ UNCHANGED <<stRows, sheetIds>>
  /\ UNCHANGED <<storeVars, reqVars, sheetVars, botVars, payloadVars, poolVars, migVars>>

(* variant: the UPDATE also rewrites the creation time,
   SET checkCoverageBotFinish = 1, timestamp = 0 *)
SetFinishStampsRow(tbl, id) ==
  UpdateColumn(UpdateColumn(tbl, id, "checkCoverageBotFinish", 1), id, "timestamp", 0)

(* variant: the UPDATE is keyed by a column the bound id never matches,
   ... WHERE checkCoverageBotId = ? *)
SetFinishWrongKey(tbl, id) == UpdateColumn(tbl, 0, "checkCoverageBotFinish", 1)

(* UPDATE submissions SET checkCoverageBotFinish = 1 WHERE id = ? *)
SetFinish(tbl, id) == UpdateColumn(tbl, id, "checkCoverageBotFinish", 1)

StatusFinish ==
  /\ stPc = "finish"
  /\ \/ /\ ~RowLocked(Head(stRows).id)
        /\ submissions' = SetFinish(submissions, Head(stRows).id)
        /\ stPc' = "write"
        /\ UNCHANGED <<stRows, stContent, sheetIds>>
     \/ /\ StatusAdvance
        /\ UNCHANGED submissions
  /\ UNCHANGED <<building_photos, reqVars, sheetVars, botVars, payloadVars, poolVars, migVars>>

(* variant: the position is counted from 1 *)
FindIndexOneBased(ids, id) ==
  IF \E i \in 1..Len(ids) : ids[i] = id
    THEN CHOOSE i \in 1..Len(ids) : ids[i] = id /\ \A j \in 1..(i - 1) : ids[j] # id
    ELSE -1

(* sheetIds.findIndex((row) => row[0] === id): 0-based, -1 when absent *)
FindIndex(ids, id) ==
  IF \E i \in 1..Len(ids) : ids[i] = id
    THEN (CHOOSE i \in 1..Len(ids) : ids[i] = id /\ \A j \in 1..(i - 1) : ids[j] # id) - 1
    ELSE -1

(* the three cells written at K of the row: isCovered ? 'Covered' : 'Not
   Covered', homepassedId or '', content.operator_remarks or '' (a field of
   the answer is modelled by its presence, a cell by the field it shows) *)
UpdateValues(content) ==
  <<IF content.is_covered = 1 THEN "Covered" ELSE "Not Covered",
    IF content.homepassed_id THEN "homepassed_id" ELSE "",
    IF content.operator_remarks THEN "operator_remarks" ELSE "">>

(* sheets.spreadsheets.values.update of "Sheet1!K" + (rowIndex + 1); the
   service rejects row 0, and any call may throw *)
StatusWrite ==
  /\ stPc = "write"
  /\ LET row == FindIndex(sheetIds, Head(stRows).id) + 1
     IN \/ /\ row >= 1
           /\ fsCells' = (row :> UpdateValues(stContent)) @@ fsCells
        \/ UNCHANGED fsCells
  /\ StatusAdvance
  /\ UNCHANGED <<storeVars, reqVars, fsSheet, allSheet, botVars, payloadVars, poolVars, migVars>>

CheckCoverageStatus == StatusSelect \/ StatusPrefetch \/ StatusPoll \/ StatusFinish
                       \/ StatusWrite

Next == (\E r \in SubIds : SubmitForm(r)) \/ CheckCoverageBot \/ CheckCoverageStatus

Spec == Init /\ [][Next]_vars

(***************************************************************************)
(* Requests sharing a pooled connection. The handler releases its          *)
(* connection right after the commit and goes on executing its marker      *)
(* UPDATEs on it. pool.getConnection() hands a released connection to the  *)
(* next request, which begins its own transaction on it and ends it with   *)
(* commit or with the rollback of its catch block. That other request is   *)
(* modelled as far as the shared connection goes; its own rows are those   *)
(* of another submission.                                                  *)
(***************************************************************************)

(* a request of SubIds has released its connection and still executes on it *)
Released(r) == pc[r] \in {"sheets", "fsAppend", "allAppend", "bot", "botUpdate"}

(* the table after the statements ws were committed, in their order *)
RECURSIVE ApplyWrites(_, _)
ApplyWrites(tbl, ws) ==
  IF ws = <<>> THEN tbl
  ELSE LET w == Head(ws)
       IN ApplyWrites(IF w[2] = "checkCoverageBotId" THEN SetBotId(tbl, w[1], w[3])
                      ELSE UpdateColumn(tbl, w[1], w[2], w[3]),
                      Tail(ws))

(* another request: pool.getConnection() returns the released connection,
   beginTransaction() *)
OtherBegin ==
  /\ holder # "open"
  /\ \E r \in SubIds : Released(r)
  /\ holder' = "open"
  /\ txn' = <<>>
  /\ UNCHANGED <<storeVars, reqVars, sheetVars, botVars, stVars, payloadVars, migVars>>

(* the other request fails: connection.rollback() in its catch block undoes
   every statement executed on the connection since its beginTransaction() *)
OtherRollback ==
  /\ holder = "open"
  /\ holder' = "rolledback"
  /\ txn' = <<>>
  /\ UNCHANGED <<storeVars, reqVars, sheetVars, botVars, stVars, payloadVars, migVars>>

(* the other request succeeds: connection.commit() *)
OtherCommit ==
  /\ holder = "open"
  /\ holder' = "committed"
  /\ submissions' = ApplyWrites(submissions, txn)
  /\ txn' = <<>>
  /\ UNCHANGED <<building_photos, reqVars, sheetVars, botVars, stVars, payloadVars, migVars>>

OtherRequest == OtherBegin \/ OtherCommit \/ OtherRollback

NextPool == Next \/ OtherRequest

SpecPool == Init /\ [][NextPool]_vars

(***************************************************************************)
(* The registration payload, built by the handler from its local           *)
(* `submission` and by a checkCoverageBot run from the stored row and its  *)
(* photo rows. A string is the sequence of its characters.                 *)
(***************************************************************************)

Chars == {"a", ","}

(* the non-empty strings of at most n characters (the handler rejects an
   empty village or coordinates field) *)
Strings(n) == UNION {[1..k -> Chars] : k \in 1..n}

(* what indexing an array beyond its end yields *)
Undefined == <<"undefined">>

(* s.split(","): the pieces between the commas, empty ones included *)
RECURSIVE Split(_)
Split(s) ==
  IF s = <<>> THEN << <<>> >>
  ELSE LET rest == Split(Tail(s))
       IN IF Head(s) = ","
            THEN << <<>> >> \o rest
            ELSE << <<Head(s)>> \o Head(rest) >> \o Tail(rest)

(* variant: the index is taken one too far, parts[i + 1] *)
AtNext(parts, i) == IF i + 1 < Len(parts) THEN parts[i + 2] ELSE Undefined

(* parts[i] of a JavaScript array: 0-based, undefined beyond the end *)
At(parts, i) == IF i < Len(parts) THEN parts[i + 1] ELSE Undefined

(* submission.buildingType === "ruko" ? "ruko" : "perumahan" *)
ResidenceType(buildingType) == IF buildingType = "ruko" THEN "ruko" ELSE "perumahan"

(* residenceType == "ruko" ? "ruko" : "rumah" *)
ResidenceName(residenceType) == IF residenceType = "ruko" THEN "ruko" ELSE "rumah"

(* `${API_URL}/${prefix}/submissions/${id}/photos/${filename}` *)
PhotoUrl(id, filename) == <<"url", id, filename>>

(* urls.join(", "): the urls with a separator between neighbours *)
RECURSIVE JoinUrls(_)
JoinUrls(urls) ==
  IF urls = <<>> THEN <<>>
  ELSE IF Len(urls) = 1 THEN urls
  ELSE <<Head(urls), ", ">> \o JoinUrls(Tail(urls))

(* photos.map((photo) => url of photo) *)
MapUrls(id, filenames) == [i \in 1..Len(filenames) |-> PhotoUrl(id, filenames[i])]

(* the payload object of either place, from the values it is given *)
Payload(s, vill, coords, file) ==
  [operator |-> "fiberstar",
   customer_name |-> s.customerName,
   street_name |-> s.customerAddress,
   home_no |-> s.customerHomeNo,
   latitude |-> At(coords, 0),
   longitude |-> At(coords, 1),
   province |-> At(vill, 4),
   city |-> At(vill, 3),
   subdistrict |-> At(vill, 2),
   village |-> At(vill, 1),
   postal_code |-> At(vill, 0),
   residence_type |-> ResidenceType(s.buildingType),
   residence_name |-> ResidenceName(ResidenceType(s.buildingType)),
   remarks |-> s.remarks,
   file |-> file]

(* the handler's payload, from its local submission *)
PayloadOfSubmission(s) ==
  Payload(s, Split(s.village), Split(s.coordinates),
          JoinUrls(MapUrls(s.id, s.buildingPhotos)))

(* the columns of the row the handler's INSERT INTO submissions stores *)
StoredRow(s) ==
  [id |-> s.id, customerName |-> s.customerName,
   customerAddress |-> s.customerAddress, customerHomeNo |-> s.customerHomeNo,
   village |-> s.village, coordinates |-> s.coordinates,
   buildingType |-> s.buildingType, remarks |-> s.remarks]

(* the rows the handler's INSERTs INTO building_photos store, one per saved
   file in the order of submission.buildingPhotos; id is AUTO_INCREMENT *)
StoredPhotos(s) ==
  [i \in 1..Len(s.buildingPhotos) |->
     [id |-> i, submission_id |-> s.id, filename |-> s.buildingPhotos[i]]]

(* SELECT filename FROM building_photos WHERE submission_id = ?: the rows of
   the submission as the index on submission_id yields them, by ascending id *)
RECURSIVE PhotoRows(_, _)
PhotoRows(rows, id) ==
  IF rows = <<>> THEN <<>>
  ELSE (IF Head(rows).submission_id = id THEN <<Head(rows).filename>> ELSE <<>>)
       \o PhotoRows(Tail(rows), id)

(* variant: the run sends no photo urls, file: "" *)
PayloadOfRowNoFile(row, photoRows) ==
  Payload(row, Split(row.village), Split(row.coordinates), <<>>)

(* the payload of a checkCoverageBot run, from the selected row and the
   photo rows it has queried *)
PayloadOfRow(row, photoRows) ==
  Payload(row, Split(row.village), Split(row.coordinates),
          JoinUrls(MapUrls(row.id, photoRows)))

BuildingTypes == {"ruko", "rumah"}

(* the submissions a valid form yields, as far as the payload reads them *)
Forms ==
  [id : {1}, customerName : {"name"}, customerAddress : {"street"},
   customerHomeNo : {"no"}, remarks : {"remarks"},
   village : Strings(MaxLocality), coordinates : Strings(MaxCoordinates),
   buildingType : BuildingTypes,
   buildingPhotos : {[i \in 1..k |-> i] : k \in 0..MaxPhotos}]

InitPayload ==
  /\ Idle
  /\ submissions = <<>> /\ building_photos = {}
  /\ fsSheet = <<>> /\ allSheet = <<>> /\ fsCells = <<>>
  /\ form \in Forms
  /\ payload = [handler |-> NoPayload, cron |-> NoPayload]
  /\ Migrated

(* the handler reaches axios.post with its payload *)
HandlerPayload ==
  /\ payload.handler = NoPayload
  /\ payload' = [payload EXCEPT !.handler = PayloadOfSubmission(form)]
  /\ UNCHANGED <<storeVars, reqVars, sheetVars, botVars, stVars, form, poolVars, migVars>>

(* a checkCoverageBot run reaches axios.post with its payload for the row *)
CronPayload ==
  /\ payload.cron = NoPayload
  /\ payload' = [payload EXCEPT !.cron =
                   PayloadOfRow(StoredRow(form),
                                PhotoRows(StoredPhotos(form), form.id))]
  /\ UNCHANGED <<storeVars, reqVars, sheetVars, botVars, stVars, form, poolVars, migVars>>

NextPayload == HandlerPayload \/ CronPayload

SpecPayload == InitPayload /\ [][NextPayload]_vars

(***************************************************************************)
(* Progress. A handler that is resumed goes on, and both cron schedules    *)
(* keep firing (weak fairness of each process). What the environment is    *)
(* assumed to do eventually is strong fairness of the step in which it     *)
(* does: column A is read, the coverage service reports a terminal result  *)
(* for a row, the store takes the UPDATE of checkCoverageBotFinish.        *)
(***************************************************************************)

PrefetchSucceeds == StatusPrefetch /\ stPc' = "poll"

ReportsTerminal(id) == StatusPoll /\ stPc' = "finish" /\ Head(stRows).id = id

StoresFinish(id) == StatusFinish /\ stPc' = "write" /\ Head(stRows).id = id

Fairness ==
  /\ \A r \in SubIds : WF_vars(SubmitForm(r))
  /\ WF_vars(CheckCoverageBot)
  /\ WF_vars(CheckCoverageStatus)
  /\ SF_vars(PrefetchSucceeds)
  /\ \A id \in SubIds : SF_vars(ReportsTerminal(id)) /\ SF_vars(StoresFinish(id))

SpecFair == Spec /\ Fairness

(* the spreadsheet service takes the values.update of a row *)
WritesCells(id) == StatusWrite /\ fsCells' # fsCells /\ Head(stRows).id = id

(* ... and, in addition, the spreadsheet service eventually takes an update
   that is offered to it again and again *)
SpecBackfill == SpecFair /\ \A id \in SubIds : SF_vars(WritesCells(id))

(***************************************************************************)
(* A backlog: the store holds n FS submissions whose requests were         *)
(* answered while every spreadsheet and coverage call failed. Only         *)
(* checkCoverageBot runs, and a run starts while the backlog is untouched: *)
(* what a later run finds is the backlog of a smaller n.                   *)
(***************************************************************************)

BacklogRow(id) ==
  NewRow([timestamp |-> id, operators |-> {"FS", "XL"}, nPhotos |-> 0])

(* the form of a request that was answered before the crons run *)
BacklogRequest ==
  [missing |-> FALSE, operators |-> {"FS", "XL"}, nFiles |-> 0, oversized |-> FALSE,
   read |-> TRUE]

InitBatch ==
  /\ \E n \in 0..MaxQualify :
       /\ submissions = [id \in 1..n |-> BacklogRow(id)]
       /\ clock = n + 1
  /\ building_photos = {}
  /\ pc = [r \in SubIds |-> "done"]
  /\ request = [r \in SubIds |-> BacklogRequest]
  /\ submission = [r \in SubIds |-> NoSubmission]
  /\ pending = [r \in SubIds |-> NoPending]
  /\ resp = [r \in SubIds |-> 200]
  /\ called = [r \in SubIds |-> TRUE]
  /\ response = [r \in SubIds |-> NULL]
  /\ attempts = [r \in SubIds |-> [fs |-> 1, all |-> 1, bot |-> 1]]
  /\ form = NoForm /\ payload = NoPayload
  /\ fsSheet = <<>> /\ allSheet = <<>> /\ fsCells = <<>>
  /\ botPc = "idle" /\ botRows = <<>> /\ botResp = NULL
  /\ botCalls = 0 /\ botSeen = <<>>
  /\ stPc = "idle" /\ stRows = <<>> /\ sheetIds = <<>>
  /\ stContent = NoContent
  /\ holder = "none" /\ txn = <<>>
  /\ Migrated

NoneRegistered ==
  \A id \in DOMAIN submissions : submissions[id].checkCoverageBotId = NULL

NextBatch == (NoneRegistered /\ BotSelect) \/ BotPost \/ BotUpdate

SpecBatch == InitBatch /\ [][NextBatch]_vars

(***************************************************************************)
(* A rejected backlog: the store holds MaxQualify unregistered FS          *)
(* submissions, and the coverage service accepts the registration of the   *)
(* last one only (it answers the POSTs for the others with an error every  *)
(* time). The checkCoverageBot schedule keeps firing, a run that is        *)
(* resumed goes on, and for the last submission the service eventually     *)
(* answers 200/201 with an id and the store eventually takes the UPDATE.   *)
(***************************************************************************)

InitStarve == InitBatch /\ DOMAIN submissions = 1..MaxQualify

PostAccepted == BotPost /\ botPc' = "update" /\ Head(botRows) = MaxQualify

StoresBotId == BotUpdate /\ submissions' # submissions

NextStarve ==
  \/ BotSelect
  \/ BotPost /\ (botPc' = "update" => Head(botRows) = MaxQualify)
  \/ BotUpdate

SpecStarve ==
  /\ InitStarve /\ [][NextStarve]_vars
  /\ WF_vars(BotSelect) /\ WF_vars(BotPost) /\ WF_vars(BotUpdate)
  /\ SF_vars(PostAccepted) /\ SF_vars(StoresBotId)

(***************************************************************************)
(* A mixed backlog: the store holds n answered FS submissions, some fully  *)
(* synchronised by their request (both appends made, id stored), the       *)
(* others with every call failed. Both cron jobs run.                      *)
(***************************************************************************)

SyncedRow(id) ==
  [BacklogRow(id) EXCEPT !.writeToAllOperatorSpreadsheetAt = id,
                         !.writeToFSOperatorSpreadsheetAt = id,
                         !.checkCoverageBotId = RegistrationId(id, "handler")]

InitBacklog ==
  /\ \E n \in 0..MaxBacklog :
       \E synced \in SUBSET (1..n) :
         /\ submissions = [id \in 1..n |-> IF id \in synced THEN SyncedRow(id)
                                           ELSE BacklogRow(id)]
         /\ fsSheet = AscendingSeq(synced)
         /\ allSheet = AscendingSeq(synced)
         /\ clock = n + 1
  /\ building_photos = {}
  /\ pc = [r \in SubIds |-> "done"]
  /\ request = [r \in SubIds |-> BacklogRequest]
  /\ submission = [r \in SubIds |-> NoSubmission]
  /\ pending = [r \in SubIds |-> NoPending]
  /\ resp = [r \in SubIds |-> 200]
  /\ called = [r \in SubIds |-> TRUE]
  /\ response = [r \in SubIds |-> NULL]
  /\ attempts = [r \in SubIds |-> [fs |-> 1, all |-> 1, bot |-> 1]]
  /\ form = NoForm /\ payload = NoPayload
  /\ fsCells = <<>>
  /\ botPc = "idle" /\ botRows = <<>> /\ botResp = NULL
  /\ botCalls = 0 /\ botSeen = <<>>
  /\ stPc = "idle" /\ stRows = <<>> /\ sheetIds = <<>>
  /\ stContent = NoContent
  /\ holder = "none" /\ txn = <<>>
  /\ Migrated

NextBacklog == CheckCoverageBot \/ CheckCoverageStatus

SpecBacklog == InitBacklog /\ [][NextBacklog]_vars

(***************************************************************************)
(* The migration script: migrate() creates the migrations table and runs   *)
(* runMigration(name, 'up') for each listed migration in turn, each in a   *)
(* transaction of its own connection. A throw anywhere reaches the catch   *)
(* block of migrate(), which ends the process with exit code 1. The script *)
(* is run again and again (at each deployment), one run at a time.         *)
(***************************************************************************)

(* a database that was never migrated *)
InitMigrate ==
  /\ Idle
  /\ submissions = <<>> /\ building_photos = {}
  /\ fsSheet = <<>> /\ allSheet = <<>> /\ fsCells = <<>>
  /\ form = NoForm /\ payload = NoPayload
  /\ migrationsTable = <<>>
  /\ schema = [i \in 1..Len(migrations) |-> 0]
  /\ migPc = "stopped" /\ migIndex = 1 /\ executed = 0 /\ schemaAtBegin = 0
  /\ runs = 0

notMigrating == <<storeVars, reqVars, sheetVars, botVars, stVars, payloadVars, poolVars>>

(* variant: the SELECT of runMigration finds no row, whatever was recorded *)
IsRecordedNever(tbl, name) == FALSE

(* SELECT * FROM migrations WHERE name = ?: rows.length > 0 *)
IsRecorded(tbl, name) == \E i \in 1..Len(tbl) : tbl[i] = name

(* the script is started *)
MigrateStart ==
  /\ migPc = "stopped"
  /\ runs < MaxRuns
  /\ runs' = runs + 1
  /\ migPc' = "init"
  /\ UNCHANGED <<migrationsTable, schema, migIndex, executed, schemaAtBegin, notMigrating>>

(* initMigrationsTable(): CREATE TABLE IF NOT EXISTS migrations; its throw
   ends the run *)
initMigrationsTable ==
  /\ migPc = "init"
  /\ \/ migPc' = "begin" /\ migIndex' = 1
     \/ migPc' = "stopped" /\ UNCHANGED migIndex
  /\ UNCHANGED <<migrationsTable, schema, executed, schemaAtBegin, runs, notMigrating>>

(* for (const migration of migrations): with none left the run ends;
   otherwise runMigration gets a connection and begins a transaction (a throw
   of getConnection ends the run, one of beginTransaction goes to the catch
   block) *)
BeginMigration ==
  /\ migPc = "begin"
  /\ IF migIndex > Len(migrations)
       THEN /\ migPc' = "stopped"
            /\ UNCHANGED <<executed, schemaAtBegin>>
       ELSE /\ migPc' \in {"select", "rollback", "stopped"}
            /\ executed' = 0
            /\ schemaAtBegin' = schema[migIndex]
  /\ UNCHANGED <<migrationsTable, schema, migIndex, runs, notMigrating>>

(* direction 'up': a recorded migration is skipped (commit, return), an
   unrecorded one goes on to its statements *)
SelectRecorded ==
  /\ migPc = "select"
  /\ \/ IF IsRecorded(migrationsTable, migrations[migIndex])
          THEN migPc' = "begin" /\ migIndex' = migIndex + 1
          ELSE migPc' = "statements" /\ UNCHANGED migIndex
     \/ migPc' = "rollback" /\ UNCHANGED migIndex
  /\ UNCHANGED <<migrationsTable, schema, executed, schemaAtBegin, runs, notMigrating>>

(* for (const statement of statements) await connection.execute(statement):
   the next statement takes effect, or throws *)
ExecuteStatement ==
  /\ migPc = "statements"
  /\ \/ /\ executed < Statements(migrations[migIndex])
        /\ \/ /\ executed' = executed + 1
              /\ schema' = [schema EXCEPT ![migIndex] =
                              IF @ < executed + 1 THEN executed + 1 ELSE @]
              /\ UNCHANGED migPc
           \/ /\ migPc' = "rollback"
              /\ UNCHANGED <<executed, schema>>
     \/ /\ executed = Statements(migrations[migIndex])
        /\ migPc' = "record"
        /\ UNCHANGED <<executed, schema>>
  /\ UNCHANGED <<migrationsTable, migIndex, schemaAtBegin, runs, notMigrating>>

(* INSERT INTO migrations (name, applied_at) VALUES (?, NOW()), then
   connection.commit(): the name is recorded, or one of the two throws *)
RecordMigration ==
  /\ migPc = "record"
  /\ \/ /\ migrationsTable' = Append(migrationsTable, migrations[migIndex])
        /\ migIndex' = migIndex + 1
        /\ migPc' = "begin"
     \/ /\ migPc' = "rollback"
        /\ UNCHANGED <<migrationsTable, migIndex>>
  /\ UNCHANGED <<schema, executed, schemaAtBegin, runs, notMigrating>>

(* catch: connection.rollback(), throw error; migrate() catches it and calls
   process.exit(1). The rollback undoes the statements executed since the
   last implicit commit: MySQL commits at each CREATE TABLE, ALTER TABLE and
   TRUNCATE, so any number of the leading statements stays in effect. *)
RollbackMigration ==
  /\ migPc = "rollback"
  /\ \E kept \in schemaAtBegin..schema[migIndex] :
       schema' = [schema EXCEPT ![migIndex] = kept]
  /\ migPc' = "stopped"
  /\ UNCHANGED <<migrationsTable, migIndex, executed, schemaAtBegin, runs, notMigrating>>

runMigration ==
  \/ BeginMigration \/ SelectRecorded \/ ExecuteStatement \/ RecordMigration
  \/ RollbackMigration

migrate == MigrateStart \/ initMigrationsTable \/ runMigration

SpecMigrate == InitMigrate /\ [][migrate]_vars

(***************************************************************************)
(* Properties                                                              *)
(***************************************************************************)

(* C1: a submission whose operators do not contain "FS" never has
   writeToFSOperatorSpreadsheetAt or checkCoverageBotId set, whatever the
   handler and the two cron jobs do. *)
C1_NonFSNeverMarked ==
  \A id \in DOMAIN submissions :
    ~hasFSOperator(submissions[id].operators)
      => /\ submissions[id].writeToFSOperatorSpreadsheetAt = NULL
         /\ submissions[id].checkCoverageBotId = NULL

(* a non-FS submission was answered after its all-operators append *)
C1_Witness ==
  \E id \in DOMAIN submissions :
    /\ ~hasFSOperator(submissions[id].operators)
    /\ pc[id] = "done"
    /\ submissions[id].writeToAllOperatorSpreadsheetAt # NULL

(* C2: the store write of a request is atomic. The row of a request becomes
   visible only together with all of its photo rows, no photo row is visible
   without its row, and a request that ends without a row (an insert or the
   commit failed, or the form was rejected) leaves no photo row and is
   answered with a failure status. *)
C2_AtomicStoreWrite ==
  [][\A r \in SubIds :
       /\ ((r \notin DOMAIN submissions /\ r \in DOMAIN submissions')
            => (PhotosOf(building_photos', r)
                  = {<<r, n>> : n \in 1..submission[r].nPhotos}))
       /\ (PhotosOf(building_photos', r) # {} => r \in DOMAIN submissions')
       /\ ((pc'[r] = "done" /\ r \notin DOMAIN submissions')
            => (PhotosOf(building_photos', r) = {} /\ resp'[r] \in {400, 500}))
       /\ (resp'[r] \in {400, 500} => r \notin DOMAIN submissions')]_vars

(* the submission row was inserted and a later insert failed: the request is
   in its catch block with the row pending *)
C2_Witness ==
  \E r \in SubIds :
    pc[r] = "catch" /\ pending[r].row /\ pending[r].photos < submission[r].nPhotos

(* C3: the success response of a request is not ordered after the completion
   of a spreadsheet append or of the coverage POST: when 200 is answered, no
   such call of the request has completed. *)
C3_SuccessBeforeExternalCalls ==
  [][\A r \in SubIds : (resp[r] = 0 /\ resp'[r] = 200) => ~called'[r]]_vars

(* C4: once the rows of a request are committed the request is answered with
   200 and nothing else, whatever the appends, the POST and the marker
   updates did. *)
C4_CommittedMeansSuccess ==
  \A r \in SubIds :
    r \in DOMAIN submissions
      => /\ resp[r] \in {0, 200}
         /\ pc[r] # "catch"
         /\ (pc[r] = "done" => resp[r] = 200)

(* an FS submission was answered with 200 although its external calls were
   made and left every marker unset *)
C4_Witness ==
  \E r \in DOMAIN submissions :
    /\ pc[r] = "done" /\ resp[r] = 200 /\ called[r]
    /\ hasFSOperator(submissions[r].operators)
    /\ submissions[r].writeToAllOperatorSpreadsheetAt = NULL
    /\ submissions[r].writeToFSOperatorSpreadsheetAt = NULL
    /\ submissions[r].checkCoverageBotId = NULL

(* C5: whatever the outcome of the FS append and of its marker update, the
   handler goes on to the all-operators append. *)
C5_FSFailureKeepsAllAppend ==
  [][\A r \in SubIds :
       (pc[r] = "fsAppend" /\ pc'[r] # "fsAppend") => pc'[r] = "allAppend"]_vars

(* C6: a post-commit step of the handler keeps the row and its photo rows,
   and changes no column but the marker the step is there to set: a step
   that fails to set its marker leaves the row as it was. *)
C6_PostCommitKeepsRows ==
  [][\A r \in SubIds :
       (pc[r] \in {"sheets", "fsAppend", "allAppend", "bot", "botUpdate"}
          /\ pc'[r] # pc[r])
         => /\ r \in DOMAIN submissions'
            /\ PhotosOf(building_photos', r) = PhotosOf(building_photos, r)
            /\ LET own == CASE pc[r] = "fsAppend" -> {"writeToFSOperatorSpreadsheetAt"}
                            [] pc[r] = "allAppend" -> {"writeToAllOperatorSpreadsheetAt"}
                            [] pc[r] = "botUpdate" -> {"checkCoverageBotId"}
                            [] OTHER -> {}
               IN \A col \in DOMAIN submissions[r] \ own :
                    submissions'[r][col] = submissions[r][col]]_vars

(* a non-FS submission with a photo whose all-operators append failed *)
C6_Witness ==
  \E r \in DOMAIN submissions :
    /\ pc[r] = "done" /\ called[r]
    /\ ~hasFSOperator(submissions[r].operators)
    /\ submissions[r].writeToAllOperatorSpreadsheetAt = NULL
    /\ PhotosOf(building_photos, r) # {}

(* C7: once checkCoverageBotFinish of a row is 1, no step makes it 0. *)
C7_FinishMonotonic ==
  [][\A id \in DOMAIN submissions :
       submissions[id].checkCoverageBotFinish = 1
         => /\ id \in DOMAIN submissions'
            /\ submissions'[id].checkCoverageBotFinish = 1]_vars

(* a finished row about to be written by a checkCoverageBot run that had
   selected it before it was registered *)
C7_Witness ==
  /\ botPc = "update"
  /\ submissions[Head(botRows)].checkCoverageBotFinish = 1

(* C8: once writeToAllOperatorSpreadsheetAt, writeToFSOperatorSpreadsheetAt
   or checkCoverageBotId of a row is set, no step makes it NULL again. *)
C8_MarkersStaySet ==
  [][\A id \in DOMAIN submissions :
       \A col \in {"writeToAllOperatorSpreadsheetAt",
                   "writeToFSOperatorSpreadsheetAt", "checkCoverageBotId"} :
         submissions[id][col] # NULL
           => /\ id \in DOMAIN submissions'
              /\ submissions'[id][col] # NULL]_vars

(* a row with all three markers set while a checkCoverageBot run holds it
   and a checkCoverageStatus run is about to write its cells *)
C8_Witness ==
  \E id \in DOMAIN submissions :
    /\ submissions[id].writeToAllOperatorSpreadsheetAt # NULL
    /\ submissions[id].writeToFSOperatorSpreadsheetAt # NULL
    /\ submissions[id].checkCoverageBotId # NULL
    /\ botPc = "post" /\ Head(botRows) = id
    /\ stPc = "write" /\ Head(stRows).id = id

(* C9 as stated: a checkCoverageBot run POSTs only for rows that had "FS"
   among their operators and no id when the run selected them, and its
   UPDATE never replaces an id a row already has. *)
C9_NeverOverwritesSetId ==
  [][(botPc = "post" \/ botPc = "update")
       => LET id == Head(botRows)
          IN /\ hasFSOperator(submissions[id].operators)
             /\ BotIdBlank(botSeen[id])
             /\ ((botPc = "update" /\ botPc' # botPc
                   /\ submissions[id].checkCoverageBotId # NULL)
                  => (submissions'[id].checkCoverageBotId
                        = submissions[id].checkCoverageBotId))]_vars

(* C9, amended: a checkCoverageBot run POSTs only for rows that had "FS"
   among their operators and no id when the run selected them, its steps
   write no other row, and so it never replaces an id that was set when the
   row was selected; an id stored after the selection may be replaced. *)
C9_OverwritesOnlyLaterIds ==
  [][(botPc = "post" \/ botPc = "update")
       => LET id == Head(botRows)
          IN /\ hasFSOperator(submissions[id].operators)
             /\ BotIdBlank(botSeen[id])
             /\ ((botPc' # botPc \/ botRows' # botRows)
                  => (\A j \in DOMAIN submissions \ {id} :
                        submissions'[j] = submissions[j]))]_vars

(* the run is about to store its id in a row the handler registered after
   the run had selected it *)
C9_Witness ==
  /\ botPc = "update"
  /\ submissions[Head(botRows)].checkCoverageBotId # NULL
  /\ botResp # submissions[Head(botRows)].checkCoverageBotId

(* C10: one run of checkCoverageBot makes at most 10 POSTs, however many
   rows qualify. *)
C10_BatchCap == botCalls <= BatchLimit

(* a run made 10 POSTs with more than 10 rows in the backlog *)
C10_Witness ==
  botCalls = BatchLimit /\ Cardinality(DOMAIN submissions) > BatchLimit

(* C11: a checkCoverageStatus run goes to the UPDATE of
   checkCoverageBotFinish exactly for an answer with is_covered = 0, or with
   is_covered = 1 and a homepassed_id; only that UPDATE sets the flag, for
   the polled row; after an answer with is_covered = 1 and no homepassed_id
   the flag is still 0 and the row still qualifies for the next selection. *)
C11_FinishExactlyWhenTerminal ==
  [][/\ (stPc = "poll" /\ stPc' = "finish")
          => (stContent'.is_covered = 0
              \/ (stContent'.is_covered = 1 /\ stContent'.homepassed_id))
     /\ (stPc = "poll" /\ stPc' = "write")
          => (stContent'.is_covered = 1 /\ ~stContent'.homepassed_id)
     /\ (stPc = "finish" /\ stPc' = "write")
          => (submissions'[Head(stRows).id].checkCoverageBotFinish = 1)
     /\ \A id \in DOMAIN submissions :
          (submissions[id].checkCoverageBotFinish = 0
           /\ submissions'[id].checkCoverageBotFinish = 1)
            => (stPc = "finish" /\ Head(stRows).id = id)
     /\ (stPc = "write" /\ stPc' # "write"
         /\ stContent.is_covered = 1 /\ ~stContent.homepassed_id)
          => (/\ submissions'[Head(stRows).id].checkCoverageBotFinish = 0
              /\ submissions'[Head(stRows).id].checkCoverageBotId # NULL)]_vars

(* the run holds an answer with is_covered = 1 and no homepassed_id for a
   row whose flag is 0 *)
C11_Witness ==
  /\ stPc = "write"
  /\ stContent.is_covered = 1 /\ ~stContent.homepassed_id
  /\ submissions[Head(stRows).id].checkCoverageBotFinish = 0

(* C12: a checkCoverageStatus run calls sheets.spreadsheets.values.update
   for a row only if the row's id is in the prefetched column. *)
C12_WriteOnlyIfFound ==
  stPc = "write" => FindIndex(sheetIds, Head(stRows).id) >= 0

(* C13: for an answer that is not terminal (is_covered = 1 without
   homepassed_id) the run writes neither checkCoverageBotFinish nor any
   cell of the spreadsheet. *)
C13_NonTerminalWritesNothing ==
  [][(stPc = "write" /\ stPc' # "write"
      /\ stContent.is_covered = 1 /\ ~stContent.homepassed_id)
       => (fsCells' = fsCells /\ submissions' = submissions)]_vars

(* C14: when the read of column A fails the run ends there: no row's
   checkCoverageBotFinish and no cell changes, the rows it had selected
   still qualify for the next selection, and a run polls only with the
   column it has read. *)
C14_PrefetchFailureEndsRun ==
  [][/\ (stPc = "prefetch" /\ stPc' # "prefetch")
          => (stPc' = "idle" \/ (stPc' = "poll" /\ sheetIds' = fsSheet))
     /\ (stPc = "prefetch" /\ stPc' = "idle")
          => (/\ submissions' = submissions
              /\ fsCells' = fsCells
              /\ \A i \in 1..Len(stRows) :
                   stRows[i].id \in Unfinished(submissions'))]_vars

(* a run with selected rows is about to read column A, which is not empty *)
C14_Witness ==
  stPc = "prefetch" /\ stRows # <<>> /\ fsSheet # <<>>

(* C19: a set writeToFSOperatorSpreadsheetAt / writeToAllOperatorSpreadsheetAt
   means the row is in that spreadsheet; checkCoverageBotId is written only
   with the id of a 200/201 answer to a POST made for that row, and such an
   id is held only by the handler or the run that has made the POST. *)
C19_MarkersRecordSuccess ==
  [][/\ \A id \in DOMAIN submissions :
          /\ submissions[id].writeToFSOperatorSpreadsheetAt # NULL
               => (\E i \in 1..Len(fsSheet) : fsSheet[i] = id)
          /\ submissions[id].writeToAllOperatorSpreadsheetAt # NULL
               => (\E i \in 1..Len(allSheet) : allSheet[i] = id)
          /\ (id \in DOMAIN submissions'
              /\ submissions'[id].checkCoverageBotId
                   # submissions[id].checkCoverageBotId)
               => \/ /\ id \in SubIds /\ pc[id] = "botUpdate" /\ called[id]
                     /\ submissions'[id].checkCoverageBotId = response[id]
                     /\ response[id] = RegistrationId(id, "handler")
                  \/ /\ botPc = "update" /\ Head(botRows) = id /\ botCalls > 0
                     /\ submissions'[id].checkCoverageBotId = botResp
                     /\ botResp = RegistrationId(id, "cron")
     /\ \A r \in SubIds : response[r] # NULL => pc[r] = "botUpdate"
     /\ botResp # NULL => botPc = "update"]_vars

(* the FS append was answered 200/201 but the marker UPDATE failed, so the
   marker is unset, while the registration succeeded and its id is stored *)
C19_Witness ==
  \E id \in DOMAIN submissions :
    /\ (\E i \in 1..Len(fsSheet) : fsSheet[i] = id)
    /\ submissions[id].writeToFSOperatorSpreadsheetAt = NULL
    /\ submissions[id].checkCoverageBotId # NULL

(* C20: a row with checkCoverageBotFinish = 1 has checkCoverageBotId set,
   and no step of a checkCoverageBot run changes checkCoverageBotFinish. *)
C20_CoverageLifecycle ==
  [][/\ \A id \in DOMAIN submissions :
          submissions[id].checkCoverageBotFinish = 1
            => submissions[id].checkCoverageBotId # NULL
     /\ (botPc' # botPc \/ botRows' # botRows)
          => \A id \in DOMAIN submissions :
               submissions'[id].checkCoverageBotFinish
                 = submissions[id].checkCoverageBotFinish]_vars

(* a resolved row whose id a checkCoverageBot run has just replaced *)
C20_Witness ==
  \E id \in DOMAIN submissions :
    /\ submissions[id].checkCoverageBotFinish = 1
    /\ submissions[id].checkCoverageBotId = RegistrationId(id, "cron")

(* C15: in both cron jobs the step that ends the work on one selected row,
   failed or not, goes on to the next selected row when there is one: a run
   does not end with rows left. *)
C15_FailureKeepsBatch ==
  [][/\ ((botPc = "post" \/ botPc = "update")
         /\ (botPc' # botPc \/ botRows' # botRows) /\ Len(botRows) > 1)
          => (\/ botPc' = "update" /\ botRows' = botRows
              \/ botPc' = "post" /\ botRows' = Tail(botRows))
     /\ ((stPc = "poll" \/ stPc = "finish" \/ stPc = "write")
         /\ (stPc' # stPc \/ stRows' # stRows) /\ Len(stRows) > 1)
          => (\/ (stPc' = "finish" \/ stPc' = "write") /\ stRows' = stRows
              \/ stPc' = "poll" /\ stRows' = Tail(stRows))]_vars

(* a checkCoverageBot run is at its second row after its POST for the first
   one left that row unregistered, and a checkCoverageStatus run is in its
   loop *)
C15_Witness ==
  /\ botPc = "post" /\ botCalls = 1 /\ Len(botRows) = 1
  /\ \E id \in DOMAIN submissions :
       id < Head(botRows) /\ submissions[id].checkCoverageBotId = NULL

(* C16: a mirror marker left unset by the request is set later: once the
   request of a committed row is answered, an unset
   writeToAllOperatorSpreadsheetAt, and for an FS row an unset
   writeToFSOperatorSpreadsheetAt, is eventually set. *)
C16_FailedAppendRepaired ==
  \A r \in SubIds :
    /\ (r \in DOMAIN submissions /\ pc[r] = "done"
        /\ submissions[r].writeToAllOperatorSpreadsheetAt = NULL)
         ~> (r \in DOMAIN submissions
             /\ submissions[r].writeToAllOperatorSpreadsheetAt # NULL)
    /\ (r \in DOMAIN submissions /\ pc[r] = "done"
        /\ hasFSOperator(submissions[r].operators)
        /\ submissions[r].writeToFSOperatorSpreadsheetAt = NULL)
         ~> (r \in DOMAIN submissions
             /\ submissions[r].writeToFSOperatorSpreadsheetAt # NULL)

(* C18: a checkCoverageStatus run selects every row with an id and
   checkCoverageBotFinish = 0, and, with the runs firing, column A
   eventually read, a terminal result eventually reported for the row and
   the UPDATE eventually taken, such a row eventually has
   checkCoverageBotFinish = 1. *)
C18_RegisteredEventuallyResolved ==
  /\ [][(stPc = "idle" /\ stPc' = "prefetch")
          => ({stRows'[i].id : i \in 1..Len(stRows')} = Unfinished(submissions))]_vars
  /\ \A r \in SubIds :
       (r \in Unfinished(submissions))
         ~> (r \in DOMAIN submissions
             /\ submissions[r].checkCoverageBotFinish = 1)

(* a run is in its loop on a row that has an id and is not resolved *)
C18_Witness ==
  /\ stPc = "poll"
  /\ Head(stRows).id \in Unfinished(submissions)

(* C17: a committed FS row whose registration the coverage service
   eventually answers with 200/201 and an id eventually has
   checkCoverageBotId set, the checkCoverageBot runs firing for ever. Under
   SpecStarve that row is the last one of the backlog. *)
C17_EventuallyRegistered ==
  (MaxQualify \in DOMAIN submissions
   /\ hasFSOperator(submissions[MaxQualify].operators))
    ~> (submissions[MaxQualify].checkCoverageBotId # NULL)

(* C21: a run works on one selected row at a time. A step of a
   checkCoverageBot run makes at most one POST, and none while the UPDATE of
   a row is outstanding; it writes no row of the store but the one at the
   head of the rows left, and the rows left change only by dropping that
   head. A step of a checkCoverageStatus run likewise writes only the store
   row and the spreadsheet row of the head of its rows left, and drops only
   that head. *)
C21_OneSubmissionAtATime ==
  [][/\ ((botPc = "post" \/ botPc = "update") /\ botVars' # botVars)
          => /\ botCalls' = botCalls \/ botCalls' = 0
                \/ (botPc = "post" /\ botCalls' = botCalls + 1)
             /\ botRows' = botRows \/ botRows' = Tail(botRows)
             /\ botPc' = "update" => (botPc = "post" /\ botRows' = botRows)
             /\ \A id \in DOMAIN submissions \ {Head(botRows)} :
                  submissions'[id] = submissions[id]
             /\ botPc = "post" => submissions' = submissions
             /\ fsCells' = fsCells
     /\ ((stPc = "poll" \/ stPc = "finish" \/ stPc = "write") /\ stVars' # stVars)
          => /\ stRows' = stRows \/ stRows' = Tail(stRows)
             /\ (stPc' = "finish" \/ stPc' = "write") => stRows' = stRows
             /\ \A id \in DOMAIN submissions \ {Head(stRows).id} :
                  submissions'[id] = submissions[id]
             /\ stPc # "finish" => submissions' = submissions
             /\ stPc # "write" => fsCells' = fsCells
             /\ \A row \in DOMAIN fsCells' :
                  (row \notin DOMAIN fsCells \/ fsCells'[row] # fsCells[row])
                    => (row \in 1..Len(sheetIds) /\ sheetIds[row] = Head(stRows).id)]_vars

(* a checkCoverageBot run has the UPDATE of a row outstanding with another
   row left, while a checkCoverageStatus run has the UPDATE of a row
   outstanding *)
C21_Witness ==
  /\ botPc = "update" /\ Len(botRows) >= 2
  /\ stPc = "finish"

(* C22: for one request the handler issues at most one append to the FS
   spreadsheet, at most one append to the all-operators spreadsheet and at
   most one POST to the coverage service, whether or not they succeed; no
   spreadsheet holds the row of a request twice. *)
C22_NoRetries ==
  \A r \in SubIds :
    /\ attempts[r].fs <= 1 /\ attempts[r].all <= 1 /\ attempts[r].bot <= 1
    /\ Cardinality({i \in 1..Len(fsSheet) : fsSheet[i] = r}) <= 1
    /\ Cardinality({i \in 1..Len(allSheet) : allSheet[i] = r}) <= 1

(* a request was answered after each of its three calls was made once and
   failed: no marker is set *)
C22_Witness ==
  \E r \in DOMAIN submissions :
    /\ pc[r] = "done"
    /\ attempts[r] = [fs |-> 1, all |-> 1, bot |-> 1]
    /\ submissions[r].writeToFSOperatorSpreadsheetAt = NULL
    /\ submissions[r].writeToAllOperatorSpreadsheetAt = NULL
    /\ submissions[r].checkCoverageBotId = NULL

(* the piece of s at comma-split position k (0-based): what lies between
   the k-th comma and the next one, Undefined when s has fewer than k
   commas *)
FieldOf(s, k) ==
  LET commas == {i \in 1..Len(s) : s[i] = ","}
      nth(n) == IF n = 0 THEN 0
                ELSE IF n > Cardinality(commas) THEN Len(s) + 1
                ELSE CHOOSE i \in commas : Cardinality({j \in commas : j < i}) = n - 1
  IN IF k > Cardinality(commas) THEN Undefined
     ELSE SubSeq(s, nth(k) + 1, nth(k + 1) - 1)

(* C23: in the payload of the handler and in that of a checkCoverageBot
   run, postal_code, village, subdistrict, city and province are the pieces
   at comma-split positions 0, 1, 2, 3, 4 of the village string, latitude
   and longitude those at positions 0 and 1 of the coordinates string; a
   field whose position the string does not have is undefined in the
   payload that is built and posted. *)
C23_PayloadByPosition ==
  \A by \in {"handler", "cron"} :
    payload[by] # NoPayload
         => /\ payload[by].postal_code = FieldOf(form.village, 0)
            /\ payload[by].village = FieldOf(form.village, 1)
            /\ payload[by].subdistrict = FieldOf(form.village, 2)
            /\ payload[by].city = FieldOf(form.village, 3)
            /\ payload[by].province = FieldOf(form.village, 4)
            /\ payload[by].latitude = FieldOf(form.coordinates, 0)
            /\ payload[by].longitude = FieldOf(form.coordinates, 1)

(* both payloads were built for a village string of four pieces, the second
   one empty, and a coordinates string without a comma *)
C23_Witness ==
  /\ payload.handler # NoPayload /\ payload.cron # NoPayload
  /\ payload.cron.province = Undefined /\ payload.cron.city # Undefined
  /\ payload.cron.village = <<>> /\ payload.cron.postal_code # <<>>
  /\ payload.handler.longitude = Undefined

(* C24: for the same stored submission and photo rows, the payload a
   checkCoverageBot run posts equals the payload the handler posts, field
   by field, residence_type, residence_name and the joined photo urls
   included. *)
C24_SamePayload ==
  (payload.handler # NoPayload /\ payload.cron # NoPayload)
    => /\ DOMAIN payload.cron = DOMAIN payload.handler
       /\ \A field \in DOMAIN payload.handler :
            payload.cron[field] = payload.handler[field]

(* both payloads were built for a "ruko" submission with a photo *)
C24_Witness ==
  /\ payload.handler # NoPayload /\ payload.cron # NoPayload
  /\ form.buildingType = "ruko" /\ form.buildingPhotos # <<>>
  /\ payload.cron.residence_name = "ruko"
  /\ payload.cron.file = <<PhotoUrl(form.id, form.buildingPhotos[1])>>

(* C25: when a checkCoverageStatus run writes the cells for a terminal
   answer, it writes the row whose number is the 1-based position of the
   first entry of the prefetched column equal to the row's id (0-based
   position i, row i + 1), and no other row; the cells K, L, M are
   "Covered" for is_covered = 1 and "Not Covered" for 0, the homepassed id
   or blank, the operator remarks or blank. *)
C25_BackfillCells ==
  [][(stPc = "write" /\ fsCells' # fsCells
      /\ (stContent.is_covered = 0
          \/ (stContent.is_covered = 1 /\ stContent.homepassed_id)))
       => \E row \in 1..Len(sheetIds) :
            /\ sheetIds[row] = Head(stRows).id
            /\ \A j \in 1..(row - 1) : sheetIds[j] # Head(stRows).id
            /\ DOMAIN fsCells' = DOMAIN fsCells \cup {row}
            /\ \A other \in DOMAIN fsCells \ {row} : fsCells'[other] = fsCells[other]
            /\ Len(fsCells'[row]) = 3
            /\ fsCells'[row][1] = (IF stContent.is_covered = 1 THEN "Covered"
                                   ELSE "Not Covered")
            /\ fsCells'[row][2] = (IF stContent.homepassed_id THEN "homepassed_id"
                                   ELSE "")
            /\ fsCells'[row][3] = (IF stContent.operator_remarks
                                     THEN "operator_remarks" ELSE "")]_vars

(* the second row of the spreadsheet shows a covered result with its
   homepassed id, the first one a result that is not covered, with remarks *)
C25_Witness ==
  /\ 1 \in DOMAIN fsCells /\ 2 \in DOMAIN fsCells
  /\ fsCells[2] = <<"Covered", "homepassed_id", "">>
  /\ fsCells[1] = <<"Not Covered", "", "operator_remarks">>
  /\ Len(fsSheet) >= 2

(* the columns of a row that are no markers *)
ImmutableColumns == {"timestamp", "operators"}

(* C26: no step removes a stored row, changes its immutable columns or
   changes its photo rows; and a step of a cron run or a post-commit step
   of the handler adds no row and no photo row, so all it can change in the
   store is a marker column of an existing row. *)
C26_OnlyMarkersChange ==
  [][/\ \A id \in DOMAIN submissions :
          /\ id \in DOMAIN submissions'
          /\ \A col \in ImmutableColumns : submissions'[id][col] = submissions[id][col]
          /\ PhotosOf(building_photos', id) = PhotosOf(building_photos, id)
     /\ (\/ botVars' # botVars
         \/ stVars' # stVars
         \/ \E r \in SubIds :
              /\ pc[r] \in {"sheets", "fsAppend", "allAppend", "bot", "botUpdate"}
              /\ (pc'[r] # pc[r] \/ attempts'[r] # attempts[r]))
          => /\ DOMAIN submissions' = DOMAIN submissions
             /\ building_photos' = building_photos]_vars

(* a row with a photo has all four markers set: each of the handler's
   post-commit steps and a checkCoverageStatus run has written it *)
C26_Witness ==
  \E id \in DOMAIN submissions :
    /\ PhotosOf(building_photos, id) # {}
    /\ submissions[id].writeToAllOperatorSpreadsheetAt # NULL
    /\ submissions[id].writeToFSOperatorSpreadsheetAt # NULL
    /\ submissions[id].checkCoverageBotId # NULL
    /\ submissions[id].checkCoverageBotFinish = 1

(* C27 as stated: checkCoverageBotId of a row changes at most once, from
   unset to an id: no step replaces a stored id with a different one. *)
C27_IdChangesOnce ==
  [][\A id \in DOMAIN submissions :
       submissions[id].checkCoverageBotId # NULL
         => submissions'[id].checkCoverageBotId
              = submissions[id].checkCoverageBotId]_vars

(* C27, amended: checkCoverageBotId of a row never goes back to unset, and
   every value it takes is the id of a 200/201 answer to a registration of
   that row, written by the handler or the run that made the registration;
   a stored id may be replaced by the id of another registration of the
   row, whichever UPDATE comes last. *)
C27_LastWriteWins ==
  [][\A id \in DOMAIN submissions :
       submissions'[id].checkCoverageBotId # submissions[id].checkCoverageBotId
         => /\ submissions'[id].checkCoverageBotId
                 \in {RegistrationId(id, "handler"), RegistrationId(id, "cron")}
            /\ submissions'[id].checkCoverageBotId = RegistrationId(id, "handler")
                 => (id \in SubIds /\ pc[id] = "botUpdate" /\ attempts[id].bot = 1)
            /\ submissions'[id].checkCoverageBotId = RegistrationId(id, "cron")
                 => (botPc = "update" /\ Head(botRows) = id
                     /\ BotIdBlank(botSeen[id]))]_vars

(* the handler is about to store the id of its registration in a row that
   holds the id of a checkCoverageBot run's registration *)
C27_Witness ==
  \E r \in DOMAIN submissions :
    /\ pc[r] = "botUpdate" /\ response[r] = RegistrationId(r, "handler")
    /\ submissions[r].checkCoverageBotId = RegistrationId(r, "cron")

(* C28: every unregistered FS row is eventually attempted by a
   checkCoverageBot run (a run reaches its iteration for the row), the runs
   firing for ever, even while the registrations of ten other rows fail in
   every run. *)
C28_NoStarvation ==
  \A id \in 1..MaxQualify :
    (id \in Unregistered(submissions))
      ~> (botPc = "post" /\ Head(botRows) = id)

(* C29: for a row that is in the FS spreadsheet, once checkCoverageBotFinish
   is 1 the terminal result eventually shows in its spreadsheet row, the
   runs firing for ever and the spreadsheet service eventually taking an
   update offered again and again. *)
C29_BackfillEventually ==
  \A r \in SubIds :
    (r \in DOMAIN submissions /\ submissions[r].checkCoverageBotFinish = 1
     /\ \E i \in 1..Len(fsSheet) : fsSheet[i] = r)
      ~> (\E i \in DOMAIN fsCells :
            /\ i <= Len(fsSheet) /\ fsSheet[i] = r
            /\ (fsCells[i][1] = "Not Covered" \/ fsCells[i][2] = "homepassed_id"))

(* C30: when a checkCoverageStatus run sets checkCoverageBotFinish of a
   row, the id whose status it has polled is the checkCoverageBotId the row
   holds at that moment. *)
C30_FinishOnCurrentId ==
  [][(stPc = "finish" /\ stPc' = "write")
       => (Head(stRows).checkCoverageBotId
             = submissions[Head(stRows).id].checkCoverageBotId)]_vars

(* the positions of a sheet's identifier column hold pairwise different
   identifiers *)
OneRowPerId(ids) ==
  \A i, j \in 1..Len(ids) : ids[i] = ids[j] => i = j

(* C31: after any sequence of ingestions and reconciler runs, each of the two
   spreadsheets holds at most one appended row per submission identifier, and
   so does the identifier column a checkCoverageStatus run fetched: the
   findIndex lookup of an identifier answers the one row that holds it. *)
C31_OneRowPerIdentifier ==
  /\ OneRowPerId(fsSheet)
  /\ OneRowPerId(allSheet)
  /\ OneRowPerId(sheetIds)
  /\ \A i \in 1..Len(sheetIds) : FindIndex(sheetIds, sheetIds[i]) = i - 1

(* a checkCoverageStatus run is about to write the cells of a submission
   whose row is in both spreadsheets and in the fetched identifier column *)
C31_Witness ==
  /\ stPc = "write"
  /\ \E i \in 1..Len(sheetIds) : sheetIds[i] = Head(stRows).id
  /\ \E i \in 1..Len(allSheet) : allSheet[i] = Head(stRows).id
  /\ \E i \in 1..Len(fsSheet) : fsSheet[i] = Head(stRows).id

(* the form fails one of the handler's checks *)
Rejectable(q) ==
  q.missing \/ q.operators = {} \/ q.nFiles > FileLimit \/ q.oversized

(* C34: the submit-form handler creates a submission only from a valid
   payload. A request whose form misses a required field, names no operator,
   attaches more than 5 files or a file over 10MB is answered 400 at once: it
   has no submission row and no photo row, committed or pending, made no
   append and no registration call, and its identifier is in no spreadsheet.
   A request that has a row, or that issued a call, carried a valid form. *)
C34_OnlyValidPayloads ==
  \A r \in SubIds :
    /\ (request[r].read /\ Rejectable(request[r]))
         => /\ resp[r] = 400 /\ pc[r] = "done"
            /\ r \notin DOMAIN submissions
            /\ PhotosOf(building_photos, r) = {}
            /\ pending[r] = NoPending
            /\ attempts[r] = NoAttempts /\ ~called[r]
            /\ \A i \in 1..Len(fsSheet) : fsSheet[i] # r
            /\ \A i \in 1..Len(allSheet) : allSheet[i] # r
    /\ (r \in DOMAIN submissions \/ pending[r].row \/ attempts[r] # NoAttempts)
         => (request[r].read /\ ~Rejectable(request[r]))
    /\ resp[r] = 400 => (request[r].read /\ Rejectable(request[r]))

(* a request with more files than allowed was answered 400 *)
C34_Witness ==
  \E r \in SubIds :
    /\ request[r].read /\ request[r].nFiles > FileLimit
    /\ ~request[r].missing /\ request[r].operators # {}
    /\ resp[r] = 400

(* the two mirror marker columns *)
MirrorMarkers ==
  {"writeToFSOperatorSpreadsheetAt", "writeToAllOperatorSpreadsheetAt"}

(* C33: a mirror marker holds the time at which the submission's row was
   appended to the corresponding spreadsheet: the value a marker is set to is
   never earlier than the time at which that append completed, which is the
   time of the step that sets it. *)
C33_MarkerIsAppendTime ==
  [][\A id \in DOMAIN submissions : \A col \in MirrorMarkers :
       (/\ id \in DOMAIN submissions'
        /\ submissions[id][col] = NULL
        /\ submissions'[id][col] # NULL)
         => submissions'[id][col] >= clock]_vars

(* C32: a marker UPDATE the handler executes after its commit, on the
   connection it has released, is independent of other requests'
   transactions: when another request rolls its transaction back, no marker
   write of a committed submission is among the statements undone. *)
C32_MarkersSurviveRollback ==
  [][(holder = "open" /\ holder' = "rolledback") => txn = <<>>]_vars

(* the migrations table holds the first k listed names, in list order *)
RecordedInListOrder ==
  \E k \in 0..Len(migrations) : migrationsTable = SubSeq(migrations, 1, k)

(* C35: the migration script applies the listed migrations in list order and
   each at most once across any number of runs. The migrations table always
   holds a prefix of the list, each name once, and every statement of a
   recorded migration is in effect. A statement is executed only for a
   migration that is not recorded and whose predecessors all are, so a
   recorded migration is skipped; a name is recorded only when all statements
   of its migration were executed by the same runMigration; and a failing
   migration ends the run with nothing recorded and nothing further
   executed. *)
C35_MigrationsOnceInOrder ==
  /\ [](/\ RecordedInListOrder
        /\ \A i \in 1..Len(migrationsTable) :
             schema[i] = Statements(migrations[i]))
  /\ [][/\ (schema' # schema)
             => /\ migIndex \in 1..Len(migrations)
                /\ \A i \in 1..Len(migrations) :
                     (i # migIndex) => schema'[i] = schema[i]
        /\ (executed' > executed)
             => /\ migPc = "statements"
                /\ migIndex \in 1..Len(migrations)
                /\ Len(migrationsTable) = migIndex - 1
        /\ (migrationsTable' # migrationsTable)
             => /\ migrationsTable' = Append(migrationsTable, migrations[migIndex])
                /\ executed = Statements(migrations[migIndex])
                /\ \A i \in 1..Len(migrationsTable) :
                     migrationsTable[i] # migrations[migIndex]
        /\ (migPc = "rollback")
             => /\ migPc' = "stopped"
                /\ migrationsTable' = migrationsTable
                /\ executed' = executed]_vars

(* a second run skips the two recorded migrations and executes the third,
   whose first attempt failed after one of its statements had taken effect *)
C35_Witness ==
  /\ runs = 2
  /\ migPc = "statements" /\ migIndex = 3 /\ executed = 0
  /\ Len(migrationsTable) = 2
  /\ schema[3] > 0

====
